---- MODULE Spec2Model ----
(***************************************************************************)
(* Model of the two programs of the repository:                            *)
(*   hw5-1/hangman.py  the Streamlit Hangman game (session state mutated   *)
(*                     by button callbacks, one word generator call)       *)
(*   hw5-2/search.py   the LangGraph agent (agent node, tools node,        *)
(*                     routing edge, run_query, main)                      *)
(* A Python str is a sequence of characters; a character is a one-element  *)
(* name such as "A", "a", "eszett" (U+00DF) or "e_acute" (U+00E9).         *)
(***************************************************************************)
EXTENDS Integers, Sequences, FiniteSets, TLC

VARIABLES
    game_started,       \* st.session_state.game_started
    secret_word,        \* st.session_state.secret_word
    guessed_letters,    \* st.session_state.guessed_letters (a set of str)
    incorrect_guesses,  \* st.session_state.incorrect_guesses (a list of str)
    game_over,          \* st.session_state.game_over
    won,                \* st.session_state.won
    warning,            \* st.warning("Please enter a valid letter") is on screen
    main_pc,            \* where main() is: "examples", "interactive", "exited", "crashed"
    query_idx,          \* index of the example query the for loop is at
    interactive_runs,   \* queries run so far by the interactive loop
    node,               \* the graph node to run next: "idle", "agent", "tools", "end"
    step,               \* supersteps executed by the current agent.invoke
    messages,           \* state["messages"] of the current agent.invoke
    response,           \* what run_query returned last
    error               \* the exception that left run_query last ("none": none)

session == <<game_started, secret_word, guessed_letters, incorrect_guesses, game_over, won>>

game_vars == <<game_started, secret_word, guessed_letters, incorrect_guesses, game_over, won, warning>>

agent_vars == <<main_pc, query_idx, interactive_runs, node, step, messages, response, error>>

vars == <<game_vars, agent_vars>>

(***************************************************************************)
(* Characters and the str methods the game uses.                           *)
(***************************************************************************)

\* alphabet = "ABCDEFGHIJKLMNOPQRSTUVWXYZ"
alphabet ==
    <<"A","B","C","D","E","F","G","H","I","J","K","L","M",
      "N","O","P","Q","R","S","T","U","V","W","X","Y","Z">>

\* the lowercase ASCII letters, in the order of alphabet
lowercase ==
    <<"a","b","c","d","e","f","g","h","i","j","k","l","m",
      "n","o","p","q","r","s","t","u","v","w","x","y","z">>

\* the class [A-Z] of the regular expression
AZ == {alphabet[i] : i \in 1..26}

\* number of alphabet buttons the player clicks in the model: alphabet[1..MaxLetters]
MaxLetters == 6

Buttons == {alphabet[i] : i \in 1..MaxLetters}

\* str.isalpha() of one character: ASCII letters and the non-ASCII letters of the model
IsAlphaChar(c) ==
    \/ c \in AZ
    \/ c \in {lowercase[i] : i \in 1..26}
    \/ c \in {"eszett", "e_acute", "E_ACUTE"}

\* str.isalpha(): every character alphabetic and at least one character
IsAlpha(s) == s # <<>> /\ \A i \in 1..Len(s) : IsAlphaChar(s[i])

\* str.upper() of one character: a str, since U+00DF uppercases to "SS"
UpperChar(c) ==
    IF \E i \in 1..26 : lowercase[i] = c
    THEN <<alphabet[CHOOSE i \in 1..26 : lowercase[i] = c]>>
    ELSE IF c = "eszett" THEN <<"S", "S">>
    ELSE IF c = "e_acute" THEN <<"E_ACUTE">>
    ELSE <<c>>

\* str.upper()
RECURSIVE Upper(_)
Upper(s) == IF s = <<>> THEN <<>> ELSE UpperChar(Head(s)) \o Upper(Tail(s))

IsSpace(c) == c \in {" ", "\n"}

RECURSIVE LStrip(_)
LStrip(s) == IF s # <<>> /\ IsSpace(Head(s)) THEN LStrip(Tail(s)) ELSE s

RECURSIVE RStrip(_)
RStrip(s) ==
    IF s # <<>> /\ IsSpace(s[Len(s)]) THEN RStrip(SubSeq(s, 1, Len(s) - 1)) ELSE s

\* str.strip()
Strip(s) == RStrip(LStrip(s))

\* re.sub(r'[^A-Z]', '', s)
ReSubNonAZ(s) == SelectSeq(s, LAMBDA c : c \in AZ)

\* sub in word, for two str: sub occurs as a substring of word
Contains(word, sub) ==
    \E i \in 0..(Len(word) - Len(sub)) : SubSeq(word, i + 1, i + Len(sub)) = sub

(***************************************************************************)
(* The word generator.                                                     *)
(***************************************************************************)

fallback_words ==
    << <<"P","Y","T","H","O","N">>,
       <<"H","A","N","G","M","A","N">>,
       <<"C","O","M","P","U","T","E","R">>,
       <<"E","L","E","P","H","A","N","T">>,
       <<"M","O","U","N","T","A","I","N">> >>

FallbackSet == {fallback_words[i] : i \in 1..Len(fallback_words)}

MinWordLen == 5
MaxWordLen == 10

\* outcomes of chain.invoke({}): it raises, or returns a response with a content
Raises == [raises |-> TRUE, content |-> <<>>]
Returns(s) == [raises |-> FALSE, content |-> s]

LLMOutcomes ==
    { Raises,
      Returns(<<" ","d","e","e","d","e","d","\n">>),
      Returns(<<"A","s","s","e","s","s",".">>),
      Returns(<<"c","a","b">>),
      Returns(<<"c","a","f","e_acute","s">>),
      Returns(<<"T","h","e"," ","w","o","r","d",":"," ","B","A","D","G","E">>) }

\* the word as extracted on line 118
ExtractWord(content) == ReSubNonAZ(Upper(Strip(content)))

generate_word_with_ai_NoValidation(out, choice) ==
    IF out.raises THEN fallback_words[choice] ELSE ExtractWord(out.content)

\* generate_word_with_ai(): out is the outcome of the external call, choice the
\* index random.choice draws
generate_word_with_ai(out, choice) ==
    IF out.raises
    THEN fallback_words[choice]
    ELSE LET word == ExtractWord(out.content)
         IN  IF MinWordLen <= Len(word) /\ Len(word) <= MaxWordLen
             THEN word
             ELSE fallback_words[choice]

(***************************************************************************)
(* The game.                                                               *)
(***************************************************************************)

MaxIncorrect == 6

\* the displayed "Attempts remaining"
AttemptsRemaining == MaxIncorrect - Len(incorrect_guesses)

AllGuessed_ByCount(secret, guessed) == Cardinality(guessed) = Len(secret)

\* all(letter in guessed for letter in secret)
AllGuessed(secret, guessed) == \A i \in 1..Len(secret) : <<secret[i]>> \in guessed

check_game_status_Gt(secret, guessed, incorrect, go, w) ==
    IF AllGuessed(secret, guessed)
    THEN [game_over |-> TRUE, won |-> TRUE]
    ELSE IF Len(incorrect) > MaxIncorrect
         THEN [game_over |-> TRUE, won |-> FALSE]
         ELSE [game_over |-> go, won |-> w]

\* check_game_status(): the new (game_over, won)
check_game_status(secret, guessed, incorrect, go, w) ==
    IF AllGuessed(secret, guessed)
    THEN [game_over |-> TRUE, won |-> TRUE]
    ELSE IF Len(incorrect) >= MaxIncorrect
         THEN [game_over |-> TRUE, won |-> FALSE]
         ELSE [game_over |-> go, won |-> w]

make_guess_NoEarlyReturn(letter0) ==
    LET letter == Upper(letter0)
        guessed == guessed_letters \cup {letter}
        incorrect == IF ~Contains(secret_word, letter)
                     THEN Append(incorrect_guesses, letter)
                     ELSE incorrect_guesses
        status == check_game_status(secret_word, guessed, incorrect, game_over, won)
    IN  /\ guessed_letters' = guessed
        /\ incorrect_guesses' = incorrect
        /\ game_over' = status.game_over
        /\ won' = status.won
        /\ UNCHANGED <<game_started, secret_word>>

make_guess_CheckOnHitOnly(letter0) ==
    LET letter == Upper(letter0)
    IN  IF letter \in guessed_letters
        THEN UNCHANGED session
        ELSE LET guessed == guessed_letters \cup {letter}
                 status == check_game_status(secret_word, guessed, incorrect_guesses,
                                             game_over, won)
             IN  IF ~Contains(secret_word, letter)
                 THEN /\ guessed_letters' = guessed
                      /\ incorrect_guesses' = Append(incorrect_guesses, letter)
                      /\ UNCHANGED <<game_started, secret_word, game_over, won>>
                 ELSE /\ guessed_letters' = guessed
                      /\ game_over' = status.game_over
                      /\ won' = status.won
                      /\ UNCHANGED <<game_started, secret_word, incorrect_guesses>>

\* make_guess(letter)
make_guess(letter0) ==
    LET letter == Upper(letter0)
    IN  IF letter \in guessed_letters
        THEN UNCHANGED session
        ELSE LET guessed == guessed_letters \cup {letter}
                 incorrect == IF ~Contains(secret_word, letter)
                              THEN Append(incorrect_guesses, letter)
                              ELSE incorrect_guesses
                 status == check_game_status(secret_word, guessed, incorrect,
                                             game_over, won)
             IN  /\ guessed_letters' = guessed
                 /\ incorrect_guesses' = incorrect
                 /\ game_over' = status.game_over
                 /\ won' = status.won
                 /\ UNCHANGED <<game_started, secret_word>>

reset_game_KeepIncorrect ==
    /\ game_started' = FALSE
    /\ secret_word' = <<>>
    /\ guessed_letters' = {}
    /\ game_over' = FALSE
    /\ won' = FALSE
    /\ UNCHANGED incorrect_guesses

\* reset_game()
reset_game ==
    /\ game_started' = FALSE
    /\ secret_word' = <<>>
    /\ guessed_letters' = {}
    /\ incorrect_guesses' = <<>>
    /\ game_over' = FALSE
    /\ won' = FALSE

InitGame ==
    /\ game_started = FALSE
    /\ secret_word = <<>>
    /\ guessed_letters = {}
    /\ incorrect_guesses = <<>>
    /\ game_over = FALSE
    /\ won = FALSE
    /\ warning = FALSE

StartGame_Always(out, choice) ==
    /\ secret_word' = generate_word_with_ai(out, choice)
    /\ game_started' = TRUE
    /\ guessed_letters' = {}
    /\ incorrect_guesses' = <<>>
    /\ game_over' = FALSE
    /\ won' = FALSE
    /\ warning' = FALSE
    /\ UNCHANGED agent_vars

\* the "Start New Game" button
StartGame(out, choice) ==
    /\ ~game_started
    /\ secret_word' = generate_word_with_ai(out, choice)
    /\ game_started' = TRUE
    /\ guessed_letters' = {}
    /\ incorrect_guesses' = <<>>
    /\ game_over' = FALSE
    /\ won' = FALSE
    /\ warning' = FALSE
    /\ UNCHANGED agent_vars

\* the "Play Again" button
PlayAgain ==
    /\ game_started
    /\ game_over
    /\ reset_game
    /\ warning' = FALSE
    /\ UNCHANGED agent_vars

ClickLetter_WhenGameOver(letter) ==
    /\ game_started
    /\ <<letter>> \notin guessed_letters
    /\ make_guess(<<letter>>)
    /\ warning' = FALSE
    /\ UNCHANGED agent_vars

ClickLetter_NotStarted(letter) ==
    /\ ~game_over
    /\ <<letter>> \notin guessed_letters
    /\ make_guess(<<letter>>)
    /\ warning' = FALSE
    /\ UNCHANGED agent_vars

\* an alphabet button: shown while the game is not over, disabled once guessed
ClickLetter(letter) ==
    /\ game_started
    /\ ~game_over
    /\ <<letter>> \notin guessed_letters
    /\ make_guess(<<letter>>)
    /\ warning' = FALSE
    /\ UNCHANGED agent_vars

\* what the player can type into the text input (max_chars = 1)
TextInputs == { <<>>, <<"e">>, <<"1">>, <<"e_acute">>, <<"eszett">> }

SubmitGuess_WhenGameOver(text) ==
    /\ game_started
    /\ LET guess_input == Upper(text)
       IN  IF guess_input # <<>> /\ IsAlpha(guess_input)
           THEN make_guess(guess_input) /\ warning' = FALSE
           ELSE UNCHANGED session /\ warning' = TRUE
    /\ UNCHANGED agent_vars

\* the text input followed by the "Submit Guess" button
SubmitGuess(text) ==
    /\ game_started
    /\ ~game_over
    /\ LET guess_input == Upper(text)
       IN  IF guess_input # <<>> /\ IsAlpha(guess_input)
           THEN make_guess(guess_input) /\ warning' = FALSE
           ELSE UNCHANGED session /\ warning' = TRUE
    /\ UNCHANGED agent_vars

(***************************************************************************)
(* The search agent.                                                       *)
(***************************************************************************)

\* str.lower() of one character of the model
LowerChar(c) ==
    IF \E i \in 1..26 : alphabet[i] = c
    THEN lowercase[CHOOSE i \in 1..26 : alphabet[i] = c]
    ELSE c

\* str.lower()
Lower(s) == [i \in 1..Len(s) |-> LowerChar(s[i])]

\* tokens of a calculator expression
Num(n) == [kind |-> "num", val |-> n]
Op(o) == [kind |-> "op", val |-> o]
Name(x) == [kind |-> "name", val |-> x]

\* what a Python call does: it returns a value or raises an exception
Return(v) == [raised |-> FALSE, value |-> v]
Raise(e) == [raised |-> TRUE, value |-> e]

\* eval(expression, {"__builtins__": {}}, {}) on the expressions of the model:
\* <number> <operator> <number> is evaluated, a name is undefined (no builtins,
\* no locals), anything else does not parse
PyEval(expression) ==
    IF /\ Len(expression) = 3
       /\ expression[1].kind = "num"
       /\ expression[2].kind = "op"
       /\ expression[3].kind = "num"
       /\ expression[2].val \in {"+", "-", "*", "/"}
    THEN LET a == expression[1].val
             b == expression[3].val
             o == expression[2].val
         IN  IF o = "+" THEN Return(a + b)
             ELSE IF o = "-" THEN Return(a - b)
             ELSE IF o = "*" THEN Return(a * b)
             ELSE IF b = 0 THEN Raise("ZeroDivisionError: division by zero")
             ELSE Return(<<a, "/", b>>)
    ELSE IF \E i \in 1..Len(expression) : expression[i].kind = "name"
         THEN Raise("NameError: name is not defined")
         ELSE Raise("SyntaxError: invalid syntax")

calculator_NoTry(expression) ==
    LET result == PyEval(expression)
    IN  IF result.raised
        THEN result
        ELSE Return(<<"The result is: ", result.value>>)

\* the calculator tool
calculator(expression) ==
    LET result == PyEval(expression)
    IN  IF result.raised
        THEN Return(<<"Error calculating: ", result.value>>)
        ELSE Return(<<"The result is: ", result.value>>)

\* the get_current_time tool; "now" stands for the formatted wall-clock time
get_current_time == Return(<<"Current date and time: ", "now">>)

\* max_results of the search tool
max_results == 3

\* what TavilySearchResults returns: up to max_results results, or the text of
\* the error of the search service
SearchOutcomes ==
    { Return(<<"results", max_results>>), Return(<<"error", "HTTPError">>) }

\* tools = [search_tool, calculator, get_current_time]: the call as ToolNode runs it
InvokeTool(call, search_out) ==
    IF call.name = "calculator" THEN calculator(call.args)
    ELSE IF call.name = "get_current_time" THEN get_current_time
    ELSE search_out

\* {"recursion_limit": 10}
recursion_limit == 10

\* the supersteps agent.invoke may still run: it raises GraphRecursionError
\* once recursion_limit supersteps have run and the graph has not ended
WithinLimit_OffByOne(n) == n <= recursion_limit

WithinLimit(n) == n < recursion_limit

example_queries ==
    << "Who is the quarterback for the Bears?",
       "What is 157 * 234?",
       "What time is it right now?",
       "Who won the latest Nobel Prize in Physics?",
       "Calculate the square root of 144 times 5" >>

\* queries the interactive loop runs in the model
MaxInteractive == 1

\* what the user types at the "Your query: " prompt
UserInputs ==
    { <<"q">>, <<" ","E","x","i","t"," ">>, <<" ">>, <<"h","i","\n">> }

QuitWords == { <<"q","u","i","t">>, <<"e","x","i","t">>, <<"q">> }

HumanMessage(content) == [type |-> "human", content |-> content]

AIMessage(content, tool_calls) ==
    [type |-> "ai", content |-> content, tool_calls |-> tool_calls]

ToolMessage(content, call) ==
    [type |-> "tool", content |-> content, name |-> call.name, tool_call_id |-> call.id]

\* what llm_with_tools.invoke(messages) does: it raises, or returns a message
\* with a content and the tool calls it requests (name and arguments)
LLMRaises == [raises |-> TRUE, content |-> "", requests |-> <<>>]
Decision(content, requests) == [raises |-> FALSE, content |-> content, requests |-> requests]
Request(name, args) == [name |-> name, args |-> args]

LLMDecisions ==
    { LLMRaises,
      Decision("final answer", <<>>),
      Decision("", << Request("calculator", <<Num(2), Op("+"), Num(2)>>) >>),
      Decision("", << Request("calculator", <<Op("not"), Name("math")>>) >>),
      Decision("", << Request("calculator", <<Num(1), Op("/"), Num(0)>>) >>),
      Decision("", << Request("get_current_time", <<>>),
                      Request("tavily_search_results_json", "query") >>) }

\* should_continue(state)
should_continue_HasAttrOnly(msgs) ==
    LET last_message == msgs[Len(msgs)]
    IN  IF "tool_calls" \in DOMAIN last_message
        THEN "tools"
        ELSE "end"

should_continue(msgs) ==
    LET last_message == msgs[Len(msgs)]
    IN  IF "tool_calls" \in DOMAIN last_message /\ last_message.tool_calls # <<>>
        THEN "tools"
        ELSE "end"

InitAgent ==
    /\ main_pc = "examples"
    /\ query_idx = 1
    /\ interactive_runs = 0
    /\ node = "idle"
    /\ step = 0
    /\ messages = <<>>
    /\ response = "none"
    /\ error = "none"

Invoke_CarryResponse(query) ==
    /\ messages' = IF response = "none"
                   THEN <<HumanMessage(query)>>
                   ELSE <<AIMessage(response, <<>>), HumanMessage(query)>>
    /\ node' = "agent"
    /\ step' = 0
    /\ response' = "none"
    /\ error' = "none"

\* agent.invoke({"messages": [HumanMessage(content=query)]}, {"recursion_limit": 10})
Invoke(query) ==
    /\ messages' = <<HumanMessage(query)>>
    /\ node' = "agent"
    /\ step' = 0
    /\ response' = "none"
    /\ error' = "none"

\* an exception leaves the running node, and with it agent.invoke and run_query
RaiseOut(exc) ==
    /\ node' = "raised"
    /\ error' = exc
    /\ UNCHANGED <<main_pc, query_idx, interactive_runs, step, messages, response>>

\* for query in example_queries: run_query(agent, query)
ExampleQuery ==
    /\ main_pc = "examples"
    /\ node = "idle"
    /\ query_idx <= Len(example_queries)
    /\ Invoke(example_queries[query_idx])
    /\ UNCHANGED <<main_pc, query_idx, interactive_runs>>
    /\ UNCHANGED game_vars

\* one round of the interactive loop, up to the call of run_query
InteractiveInput(typed) ==
    /\ main_pc = "interactive"
    /\ node = "idle"
    /\ LET user_input == Strip(typed)
       IN  IF Lower(user_input) \in QuitWords
           THEN /\ main_pc' = "exited"
                /\ UNCHANGED <<query_idx, interactive_runs, node, step, messages,
                               response, error>>
           ELSE IF user_input = <<>>
           THEN UNCHANGED agent_vars
           ELSE /\ interactive_runs < MaxInteractive
                /\ interactive_runs' = interactive_runs + 1
                /\ Invoke(user_input)
                /\ UNCHANGED <<main_pc, query_idx>>
    /\ UNCHANGED game_vars

agent_node_Overwrite(decision) ==
    /\ node = "agent"
    /\ WithinLimit(step)
    /\ IF decision.raises
       THEN RaiseOut("LLMError")
       ELSE LET tool_calls ==
                    [i \in 1..Len(decision.requests) |->
                        [name |-> decision.requests[i].name,
                         args |-> decision.requests[i].args,
                         id |-> <<Len(messages) + 1, i>>]]
                msgs == <<AIMessage(decision.content, tool_calls)>>
            IN  /\ messages' = msgs
                /\ step' = step + 1
                /\ node' = should_continue(msgs)
                /\ UNCHANGED <<main_pc, query_idx, interactive_runs, response, error>>
    /\ UNCHANGED game_vars

\* the agent node: one call of the model, its response appended, then the
\* conditional edge
agent_node(decision) ==
    /\ node = "agent"
    /\ WithinLimit(step)
    /\ IF decision.raises
       THEN RaiseOut("LLMError")
       ELSE LET tool_calls ==
                    [i \in 1..Len(decision.requests) |->
                        [name |-> decision.requests[i].name,
                         args |-> decision.requests[i].args,
                         id |-> <<Len(messages) + 1, i>>]]
                msgs == Append(messages, AIMessage(decision.content, tool_calls))
            IN  /\ messages' = msgs
                /\ step' = step + 1
                /\ node' = should_continue(msgs)
                /\ UNCHANGED <<main_pc, query_idx, interactive_runs, response, error>>
    /\ UNCHANGED game_vars

ToolNode_FirstCallOnly(search_out, handled) ==
    /\ node = "tools"
    /\ WithinLimit(step)
    /\ LET calls == messages[Len(messages)].tool_calls
           out == InvokeTool(calls[1], search_out)
       IN  /\ messages' = Append(messages, ToolMessage(out.value, calls[1]))
           /\ step' = step + 1
           /\ node' = "agent"
           /\ UNCHANGED <<main_pc, query_idx, interactive_runs, response, error>>
    /\ UNCHANGED game_vars

\* the tools node, ToolNode(tools): every tool call of the last message is run
\* and answered by one ToolMessage, in the order of the calls; then the edge
\* back to the agent node. handled: whether this version of ToolNode turns an
\* exception a tool raises into a ToolMessage, or lets it through
ToolNode(search_out, handled) ==
    /\ node = "tools"
    /\ WithinLimit(step)
    /\ LET calls == messages[Len(messages)].tool_calls
           outs == [i \in 1..Len(calls) |-> InvokeTool(calls[i], search_out)]
       IN  IF \E i \in 1..Len(calls) : outs[i].raised /\ ~handled
           THEN RaiseOut("ToolError")
           ELSE /\ messages' = messages \o
                        [i \in 1..Len(calls) |->
                            ToolMessage(IF outs[i].raised
                                        THEN <<"Error: ", outs[i].value>>
                                        ELSE outs[i].value,
                                        calls[i])]
                /\ step' = step + 1
                /\ node' = "agent"
                /\ UNCHANGED <<main_pc, query_idx, interactive_runs, response, error>>
    /\ UNCHANGED game_vars

\* recursion_limit supersteps have run and a node is still to run
GraphRecursionError ==
    /\ node \in {"agent", "tools"}
    /\ ~WithinLimit(step)
    /\ RaiseOut("GraphRecursionError")
    /\ UNCHANGED game_vars

\* the graph reached END: run_query returns result["messages"][-1].content, and
\* main goes on with the next query
ReturnResponse ==
    /\ node = "end"
    /\ response' = messages[Len(messages)].content
    /\ node' = "idle"
    /\ messages' = <<>>
    /\ step' = 0
    /\ IF main_pc = "examples"
       THEN /\ query_idx' = query_idx + 1
            /\ main_pc' = IF query_idx = Len(example_queries)
                          THEN "interactive"
                          ELSE "examples"
       ELSE UNCHANGED <<main_pc, query_idx>>
    /\ UNCHANGED <<interactive_runs, error>>
    /\ UNCHANGED game_vars

\* an exception leaves run_query in the loop over example_queries: nothing
\* catches it, main ends with it
ExampleQueryFails ==
    /\ node = "raised"
    /\ main_pc = "examples"
    /\ main_pc' = "crashed"
    /\ node' = "idle"
    /\ messages' = <<>>
    /\ step' = 0
    /\ UNCHANGED <<query_idx, interactive_runs, response, error>>
    /\ UNCHANGED game_vars

\* an exception leaves run_query in the interactive loop: except Exception
\* prints it and the loop goes on
InteractiveQueryFails ==
    /\ node = "raised"
    /\ main_pc = "interactive"
    /\ node' = "idle"
    /\ messages' = <<>>
    /\ step' = 0
    /\ UNCHANGED <<main_pc, query_idx, interactive_runs, response, error>>
    /\ UNCHANGED game_vars

Init == InitGame /\ InitAgent

NextAgent ==
    \/ ExampleQuery
    \/ \E typed \in UserInputs : InteractiveInput(typed)
    \/ \E decision \in LLMDecisions : agent_node(decision)
    \/ \E search_out \in SearchOutcomes, handled \in BOOLEAN : ToolNode(search_out, handled)
    \/ GraphRecursionError
    \/ ReturnResponse
    \/ ExampleQueryFails
    \/ InteractiveQueryFails

Next ==
    \/ \E out \in LLMOutcomes, choice \in 1..Len(fallback_words) : StartGame(out, choice)
    \/ PlayAgain
    \/ \E letter \in Buttons : ClickLetter(letter)
    \/ \E text \in TextInputs : SubmitGuess(text)

\* the Hangman app
Spec == Init /\ [][Next]_vars

\* the search agent
SpecAgent == Init /\ [][NextAgent]_vars

(***************************************************************************)
(* Properties of the game.                                                 *)
(***************************************************************************)

InProgress == ~game_over
Won == game_over /\ won
Lost == game_over /\ ~won

\* C1: once a game is Won or Lost its status never changes again until the
\* reset (which ends the game: game_started becomes FALSE); so the status
\* leaves InProgress at most once, and a Lost game never becomes Won.
C1_StatusNeverReverts ==
    [][(game_started /\ game_over /\ game_started') => (game_over' /\ won' = won)]_vars

\* a Lost game in which the letter E of the secret word is still to be guessed
C1_Witness ==
    /\ game_started
    /\ Lost
    /\ Contains(secret_word, <<"E">>)
    /\ <<"E">> \notin guessed_letters

\* C2: in a started game, Won iff every letter of the secret word is guessed,
\* Lost iff there are at least 6 incorrect guesses and the game is not Won, and
\* won is never set while game_over is not.
C2_StatusInvariant ==
    game_started =>
        /\ Won <=> AllGuessed(secret_word, guessed_letters)
        /\ Lost <=> (Len(incorrect_guesses) >= 6 /\ ~Won)
        /\ won => game_over

\* a game won after some incorrect guesses
C2_Witness == game_started /\ Won /\ Len(incorrect_guesses) > 0

\* C5: submitting a guess that is already in guessed_letters changes nothing of
\* the session state.
C5_ReguessIsNoOp ==
    [][\A text \in TextInputs :
          (Upper(text) \in guessed_letters /\ SubmitGuess(text)) => UNCHANGED session]_vars

\* a game in progress where the text input can repeat an incorrect guess
C5_Witness ==
    /\ game_started
    /\ ~game_over
    /\ \E text \in TextInputs :
          \E i \in 1..Len(incorrect_guesses) : incorrect_guesses[i] = Upper(text)

\* C6: incorrect_guesses holds exactly the guesses that do not occur in the
\* secret word, each once, and never more than 6 of them, so the attempts
\* remaining are never negative.
C6_IncorrectGuesses ==
    /\ {incorrect_guesses[i] : i \in 1..Len(incorrect_guesses)}
           = {g \in guessed_letters : ~Contains(secret_word, g)}
    /\ \A i, j \in 1..Len(incorrect_guesses) :
           i # j => incorrect_guesses[i] # incorrect_guesses[j]
    /\ Len(incorrect_guesses) <= 6
    /\ AttemptsRemaining >= 0

\* 6 incorrect guesses beside a correct one, with a letter left on the buttons
C6_Witness ==
    /\ game_started
    /\ Len(incorrect_guesses) = 6
    /\ Cardinality(guessed_letters) > 6
    /\ \E letter \in Buttons : <<letter>> \notin guessed_letters

IsWord(word) ==
    /\ 5 <= Len(word)
    /\ Len(word) <= 10
    /\ \A i \in 1..Len(word) : word[i] \in AZ

\* C9: whatever the external call does, the generated word is 5 to 10 letters
\* A-Z, and it is a fallback word whenever the call raised or its stripped
\* output has a length outside 5..10.
C9_GeneratedWord ==
    [][\A out \in LLMOutcomes, choice \in 1..Len(fallback_words) :
          StartGame(out, choice) =>
              /\ IsWord(secret_word')
              /\ (\/ out.raises
                  \/ Len(ExtractWord(out.content)) < 5
                  \/ Len(ExtractWord(out.content)) > 10) => secret_word' \in FallbackSet]_vars

\* a game started on a fallback word
C9_Witness == game_started /\ secret_word \in FallbackSet /\ guessed_letters = {}

\* a malformed guess: empty, not a letter, or not one character
\* once uppercased
Malformed(text) == text = <<>> \/ ~IsAlpha(text) \/ Len(Upper(text)) # 1

\* C10: a malformed guess from the text input is answered by the warning and
\* leaves the session state unchanged.
C10_MalformedGuessRejected ==
    [][\A text \in TextInputs :
          (Malformed(text) /\ SubmitGuess(text)) => (UNCHANGED session /\ warning')]_vars

\* the letters of the secret word, each as a guess
SecretLetters == {<<secret_word[i]>> : i \in 1..Len(secret_word)}

\* C12: when the guesses made are exactly the distinct letters of the secret
\* word, the game is Won and there is no incorrect guess.
C12_GuessingTheSecretWins ==
    (game_started /\ guessed_letters = SecretLetters) =>
        (Won /\ Len(incorrect_guesses) = 0)

\* a secret word with a repeated letter, guessed letter by letter
C12_Witness ==
    /\ game_started
    /\ guessed_letters = SecretLetters
    /\ Cardinality(SecretLetters) < Len(secret_word)

\* the guessed single letters that are absent from the secret word
AbsentLetters == {g \in guessed_letters : Len(g) = 1 /\ ~Contains(secret_word, g)}

\* C13: once 6 distinct letters absent from the secret word have been guessed
\* the game is Lost, whatever correct guesses were made in between.
C13_SixAbsentLettersLose ==
    (game_started /\ Cardinality(AbsentLetters) >= 6) => Lost

\* 6 absent letters guessed beside a letter of the secret word
C13_Witness ==
    /\ game_started
    /\ Cardinality(AbsentLetters) >= 6
    /\ \E g \in guessed_letters : g \in SecretLetters

\* C16: from the start of a game to its reset the secret word does not change
\* and no guess leaves guessed_letters.
C16_SecretFixedGuessesGrow ==
    [][(game_started /\ game_started') =>
           /\ secret_word' = secret_word
           /\ guessed_letters \subseteq guessed_letters']_vars

\* a game in progress after three guesses
C16_Witness == game_started /\ ~game_over /\ Cardinality(guessed_letters) >= 3

\* C17: every guess kept in guessed_letters and in incorrect_guesses is one
\* uppercase letter A..Z.
C17_GuessesAreUppercaseLetters ==
    \A g \in guessed_letters \cup {incorrect_guesses[i] : i \in 1..Len(incorrect_guesses)} :
        Len(g) = 1 /\ g[1] \in AZ

\* the session state of lines 77-88
InitialSession == <<FALSE, <<>>, {}, <<>>, FALSE, FALSE>>

\* C18: a guess is taken only in a started game that is not over; once the
\* game is over the only change of the session state is the reset, and before
\* the start the only change is the start of a game.
C18_GuessesOnlyInProgress ==
    [][/\ (guessed_letters' # guessed_letters /\ guessed_letters' # {}) =>
              (game_started /\ ~game_over)
       /\ (game_started /\ game_over /\ session' # session) => session' = InitialSession
       /\ (~game_started /\ session' # session) =>
              (game_started' /\ guessed_letters' = {} /\ incorrect_guesses' = <<>>)]_vars

\* a Won game with a letter button never clicked
C18_Witness ==
    /\ game_started
    /\ Won
    /\ \E letter \in Buttons : <<letter>> \notin guessed_letters

\* C19: the reset leaves exactly the initial session state, and a new game
\* starts with no guess, no incorrect guess, not over and not won.
C19_ResetRestoresInitialState ==
    [][/\ (game_started /\ ~game_started') => session' = InitialSession
       /\ (~game_started /\ game_started') =>
              /\ guessed_letters' = {}
              /\ incorrect_guesses' = <<>>
              /\ ~game_over'
              /\ ~won']_vars

\* a finished game with guesses of both kinds, where Play Again can be clicked
C19_Witness ==
    /\ game_over
    /\ incorrect_guesses # <<>>
    /\ Cardinality(guessed_letters) > Len(incorrect_guesses)
    /\ ENABLED PlayAgain

\* C20: with d the number of distinct letters of the secret word, a game is
\* over after at most d + 5 accepted guesses: no game has more, none in
\* progress has d + 5, and none in progress has all 26 letters guessed.
C20_GameEndsWithinBound ==
    game_started =>
        /\ Cardinality(guessed_letters) <= Cardinality(SecretLetters) + 5
        /\ ~game_over => Cardinality(guessed_letters) < Cardinality(SecretLetters) + 5
        /\ ~game_over => Cardinality(guessed_letters) < 26

(***************************************************************************)
(* Properties of the agent.                                                *)
(***************************************************************************)

\* the indices of the assistant messages of the transcript
Decisions == {i \in 1..Len(messages) : messages[i].type = "ai"}

\* invocations of the Decide step that returned, in the current run
Decides == Cardinality(Decisions)

\* every Decide step of the run requested a tool call
AlwaysRequests == \A i \in Decisions : messages[i].tool_calls # <<>>

BudgetExceeded == node = "raised" /\ error = "GraphRecursionError"

\* C3 as stated: the run fails on its budget after exactly 10 Decide steps.
C3_TenDecideSteps == BudgetExceeded => Decides = 10

\* C3, amended: the budget of 10 counts the supersteps of both nodes, so a run
\* whose Decide step always requests a tool call fails with the budget error
\* after exactly 5 Decide steps and 5 runs of the tools node; no run has more
\* than 5 Decide steps, and a failed run returns no answer.
C3_FiveDecideSteps ==
    /\ step <= recursion_limit
    /\ Decides <= 5
    /\ BudgetExceeded =>
           /\ Decides = 5
           /\ step = recursion_limit
           /\ Len(messages) > Decides + 5
           /\ AlwaysRequests
           /\ response = "none"
    /\ (node = "agent" /\ Decides = 5) => ~ENABLED (\E d \in LLMDecisions : agent_node(d))
    /\ node = "end" => ~AlwaysRequests

C3_Witness == BudgetExceeded

\* C4: a budget failure of run_query is fatal to its query only: main does not
\* end with it, it goes on with the following queries.
C4_BudgetFatalToQueryOnly ==
    [][(BudgetExceeded /\ node' # "raised") => main_pc' \in {"examples", "interactive"}]_vars

\* the tool calls of assistant message i all have their result: call c is
\* answered by message i + c, and by no other message
Answered(i) ==
    LET calls == messages[i].tool_calls
    IN  /\ i + Len(calls) <= Len(messages)
        /\ \A c \in 1..Len(calls) :
               /\ messages[i + c].type = "tool"
               /\ messages[i + c].tool_call_id = calls[c].id
               /\ Cardinality({j \in 1..Len(messages) :
                                  /\ messages[j].type = "tool"
                                  /\ messages[j].tool_call_id = calls[c].id}) = 1
        /\ i + Len(calls) < Len(messages) => messages[i + Len(calls) + 1].type = "ai"

\* C7: the agent node never runs (and no run ends) with a tool call unanswered:
\* each call has exactly one result, in the order of the calls, before the next
\* assistant message; the tools node runs only on an assistant message that
\* has tool calls, and a run ends only on one that has none.
C7_RequestsAnsweredBeforeDecide ==
    /\ node # "tools" => \A i \in Decisions : Answered(i)
    /\ node = "tools" =>
           /\ Len(messages) \in Decisions
           /\ messages[Len(messages)].tool_calls # <<>>
           /\ \A i \in Decisions \ {Len(messages)} : Answered(i)
    /\ node = "agent" => messages[Len(messages)].type \in {"human", "tool"}
    /\ node = "end" =>
           /\ Len(messages) \in Decisions
           /\ messages[Len(messages)].tool_calls = <<>>

\* the agent node is about to run on a transcript where a decision with two
\* tool calls has been answered
C7_Witness ==
    /\ node = "agent"
    /\ \E i \in Decisions : Len(messages[i].tool_calls) = 2

\* C8: no exception of a tool leaves the loop; a calculator call whose
\* expression cannot be evaluated is answered by an "Error calculating: ..."
\* result, which is in the transcript when the agent node runs next.
C8_ToolErrorsBecomeObservations ==
    /\ error # "ToolError"
    /\ \A i \in Decisions : \A c \in 1..Len(messages[i].tool_calls) :
           LET call == messages[i].tool_calls[c]
           IN  (call.name = "calculator" /\ PyEval(call.args).raised) =>
                   /\ node = "agent" => i + c <= Len(messages)
                   /\ i + c <= Len(messages) =>
                          /\ messages[i + c].tool_call_id = call.id
                          /\ messages[i + c].content =
                                 <<"Error calculating: ", PyEval(call.args).value>>

\* the agent node is about to run on the error of calculator("not math")
C8_Witness ==
    /\ node = "agent"
    /\ messages[Len(messages)].type = "tool"
    /\ messages[Len(messages)].content =
           <<"Error calculating: ", PyEval(<<Op("not"), Name("math")>>).value>>

\* C11: after the agent node the run ends exactly when the last message has
\* no tool call, and run_query returns the content of that message; otherwise
\* the tools node answers every call of that message and the agent node runs
\* next.
C11_RoutingPolicy ==
    [][/\ (node = "agent" /\ node' # "raised") =>
              LET last_message == messages'[Len(messages')]
              IN  /\ node' \in {"end", "tools"}
                  /\ last_message.type = "ai"
                  /\ node' = "end" <=> last_message.tool_calls = <<>>
       /\ (node = "end" /\ node' # "end") =>
              /\ node' = "idle"
              /\ response' = messages[Len(messages)].content
       /\ (node = "tools" /\ node' # "raised") =>
              LET calls == messages[Len(messages)].tool_calls
              IN  /\ node' = "agent"
                  /\ Len(messages') = Len(messages) + Len(calls)
                  /\ \A c \in 1..Len(calls) :
                         /\ messages'[Len(messages) + c].type = "tool"
                         /\ messages'[Len(messages) + c].tool_call_id = calls[c].id]_vars

\* a run has ended after a round of two tool calls
C11_Witness ==
    /\ node = "end"
    /\ \E i \in Decisions : Len(messages[i].tool_calls) = 2

\* every Decide step of the run requested at most one tool call
SingleToolRounds == \A i \in Decisions : Len(messages[i].tool_calls) <= 1

\* the run of the scenario: calculator("2 + 2") requested, then a final answer
CalcThenFinish ==
    /\ node = "end"
    /\ Decides = 2
    /\ Len(messages) >= 2
    /\ messages[2].type = "ai"
    /\ Len(messages[2].tool_calls) = 1
    /\ messages[2].tool_calls[1].name = "calculator"
    /\ messages[2].tool_calls[1].args = <<Num(2), Op("+"), Num(2)>>

\* C14: a run that requests the calculator once and then finishes ends with
\* one observation, the result of the calculator, and a transcript of the
\* initial length (1) plus 3; a run of k rounds of one tool call each ends with
\* a transcript of length 1 + 2k + 1.
C14_TranscriptLength ==
    /\ CalcThenFinish =>
           /\ Len(messages) = 1 + 3
           /\ {i \in 1..Len(messages) : messages[i].type = "tool"} = {3}
           /\ messages[3].content = <<"The result is: ", 4>>
    /\ (node = "end" /\ SingleToolRounds) =>
           Len(messages) = 1 + 2 * (Decides - 1) + 1

\* the scenario has run to its final decision
C14_Witness == CalcThenFinish /\ messages[Len(messages)].content = "final answer"

IsPrefix(s, t) == Len(s) <= Len(t) /\ SubSeq(t, 1, Len(s)) = s

\* C15: a run starts from a transcript that holds the user message of its
\* query and nothing else, the steps of the run only append to it, and so no
\* message of another query is in it.
C15_FreshAppendOnlyTranscript ==
    [][/\ (node = "idle" /\ node' = "agent") =>
              /\ Len(messages') = 1
              /\ messages'[1].type = "human"
              /\ main_pc = "examples" => messages'[1].content = example_queries[query_idx]
              /\ main_pc = "interactive" =>
                     messages'[1].content \in {Strip(typed) : typed \in UserInputs}
       /\ (node \in {"agent", "tools"} /\ node' \in {"agent", "tools", "end"}) =>
              /\ IsPrefix(messages, messages')
              /\ {i \in 1..Len(messages') : messages'[i].type = "human"} = {1}]_vars

\* the second example query is running, after the first one was answered,
\* and the agent node is about to run on the results of a round of tools
C15_Witness ==
    /\ main_pc = "examples"
    /\ query_idx = 2
    /\ node = "agent"
    /\ Len(messages) >= 3

====
